---- MODULE Spec2Model ----
(***************************************************************************)
(* Model of the ts-option library: the Option<T> container (src/option.ts),*)
(* its guards (src/guards.ts), transformations (src/transformations.ts),   *)
(* extraction functions (src/unwrapping.ts), fromNullable (src/from.ts)    *)
(* and OptionError (src/OptionError.ts).                                   *)
(*                                                                         *)
(* Containers are objects with identity: the heap is the sequence of the   *)
(* containers allocated so far and a reference is an index into it.  Each  *)
(* Do* action is one call of one exported function by client code; the     *)
(* variables op, args, result, thrown and calls record that call: what was *)
(* returned, what was thrown and which caller-supplied callbacks ran.  The *)
(* client makes its next call after it has taken the outcome (Proceed).    *)
(* The variable client is the state of the README's example program: its   *)
(* user database, its constants and what it has printed.                   *)
(***************************************************************************)
EXTENDS Integers, Sequences, FiniteSets

VARIABLES heap, op, args, result, thrown, calls, client

vars == <<heap, op, args, result, thrown, calls, client>>

(***************************************************************************)
(* Bounds.                                                                 *)
(***************************************************************************)
\* Largest number of containers on the heap, the shared None included.
MaxHeap == 4
\* Largest number a callback may compute.
MaxNum == 2

(***************************************************************************)
(* JavaScript values that serve as payloads and arguments.                 *)
(***************************************************************************)
Null == [t |-> "null"]
Undefined == [t |-> "undefined"]
Num(k) == [t |-> "number", n |-> k]
Bool(b) == [t |-> "boolean", b |-> b]
Str(s) == [t |-> "string", s |-> s]
Arr(a, b) == [t |-> "array", items |-> <<a, b>>]

\* The values client code passes to some, fromNullable and unwrapOr.
Inputs == {Null, Undefined, Num(0), Num(1), Bool(FALSE), Str("")}

\* The message arguments client code passes to unwrap (undefined = omitted).
Messages == {Undefined, Str(""), Str("custom message")}

(***************************************************************************)
(* Caller-supplied callbacks.  They are inputs of the library: each is a   *)
(* named function of the client, taken from the repository's tests and     *)
(* README, and one of each shape throws.                                   *)
(***************************************************************************)
CallbackError == [name |-> "Error", message |-> "callback failed"]

\* fn of map: x => x, x => x * 2, x => null, and one that throws.
Fns == {"identity", "double", "toNull", "fail"}

\* What the caller's typing and the number bound allow fn to be applied to.
FnAccepts(f, v) == f = "double" => (v.t = "number" /\ v.n * 2 <= MaxNum)

FnValue(f, v) ==
    CASE f = "identity" -> v
      [] f = "double" -> Num(v.n * 2)
      [] f = "toNull" -> Null
      [] f = "name" -> Str(v.name)
      [] f = "renamed" -> [v EXCEPT !.name = "Alicia"]
      [] f = "found" -> Str("Found: " \o v.name)
      [] OTHER -> Undefined

\* A callback the caller builds from two others: x => g(f(x)).
Compose(f, g) == f \o ";" \o g
Composed == {Compose(f, g) : f \in Fns, g \in Fns}
Inner(cb) == CHOOSE f \in Fns : \E g \in Fns : cb = Compose(f, g)
Outer(cb) == CHOOSE g \in Fns : cb = Compose(Inner(cb), g)

\* predicate of filter: x => x > 0, x => true, and one that throws.
Preds == {"positive", "always", "fail"}

PredAccepts(p, v) == p = "positive" => v.t = "number"

PredValue(p, v) ==
    CASE p = "positive" -> v.n > 0
      [] p = "longName" -> Len(v.name) > 3
      [] OTHER -> TRUE

\* fn of liftA2: (a, b) => a + b, (a, b) => a, and one that throws.
BinFns == {"add", "left", "fail"}

BinAccepts(f, a, b) ==
    f = "add" => (a.t = "number" /\ b.t = "number" /\ a.n + b.n <= MaxNum)

BinValue(f, a, b) ==
    CASE f = "add" -> Num(a.n + b.n)
      [] f = "left" -> a
      [] f = "names" -> Str(a.name \o " & " \o b.name)
      [] OTHER -> Undefined

\* fn of flatMap and onSome of matchOption: x => none(), x => some(x),
\* x => some(x * 2), and one that throws.
OptFns == {[k |-> "none"], [k |-> "fail"]}
              \cup {[k |-> "some", f |-> f] : f \in {"identity", "double"}}

OptFnAccepts(g, v) == g.k = "some" => FnAccepts(g.f, v)

\* onNone of matchOption and alternative of OrElse: () => none(),
\* () => some(0), () => o for a Some o the client holds, and one that throws.
Thunks(h) ==
    {[k |-> "none"], [k |-> "fail"], [k |-> "some", v |-> Num(0)]}
        \cup {[k |-> "captured", r |-> r] : r \in {x \in DOMAIN h : h[x].kind = "some"}}

\* The default values client code passes to unwrapOr.
Defaults == {Null, Num(1)}

\* One invocation of a callback, as recorded in calls: the callback, its
\* arguments and what it returned (Nothing when it threw).
Call(cb, as, ret) == [cb |-> cb, args |-> as, ret |-> ret]

(***************************************************************************)
(* Outcomes of a call: a normal return or a throw, with the heap after the *)
(* call and the callback invocations made, in order.                       *)
(***************************************************************************)
NoError == [name |-> "none"]
Nothing == [t |-> "nothing"]
Ref(r) == [t |-> "ref", r |-> r]
Val(v) == [t |-> "val", v |-> v]

\* A callback throws when its body is a throw statement.
Throws(cb) == cb = "fail"

Return(h, res, cs) == [heap |-> h, result |-> res, thrown |-> NoError, calls |-> cs]
Throw(h, err, cs) == [heap |-> h, result |-> Nothing, thrown |-> err, calls |-> cs]

(***************************************************************************)
(* src/OptionError.ts                                                      *)
(***************************************************************************)
\* Fault variant of the default parameter: another sentence as the default.
DefaultMessage_OtherText == "attempted to extract from an absent value"

DefaultMessage == "Attempted to unwrap a None value"

\* Fault variant of OptionError: message || default, which also replaces the
\* empty string.
OptionError_OrDefault(message) ==
    [name |-> "OptionError",
     message |-> IF message = Undefined \/ message = Str("")
                 THEN DefaultMessage ELSE message.s]

\* new OptionError(message): a default parameter applies exactly when the
\* argument is undefined.
OptionError(message) ==
    [name |-> "OptionError",
     message |-> IF message = Undefined THEN DefaultMessage ELSE message.s]

(***************************************************************************)
(* src/option.ts                                                           *)
(***************************************************************************)
\* const NONE: the reference of the singleton, allocated at module load.
NONE == 1

\* Fault variant of some: treats null and undefined as absence, as
\* fromNullable does.
some_Nullable(h, value) ==
    IF value \in {[t |-> "null"], [t |-> "undefined"]}
    THEN [heap |-> h, ref |-> NONE]
    ELSE [heap |-> Append(h, [kind |-> "some", value |-> value]), ref |-> Len(h) + 1]

\* some(value): allocates { kind: 'some', value }.
some(h, value) ==
    [heap |-> Append(h, [kind |-> "some", value |-> value]), ref |-> Len(h) + 1]

\* none(): returns NONE.
none == NONE

(***************************************************************************)
(* src/guards.ts                                                           *)
(***************************************************************************)
isSome(h, option) == h[option].kind = "some"

\* Fault variant of isNone: compares with the shared instance.
isNone_ByIdentity(h, option) == option = NONE

isNone(h, option) == h[option].kind = "none"

\* Invocation of a value-returning callback: fn(v), predicate(v), fn(a, b).
\* The body of x => g(f(x)) invokes f and then g on what f returned; the log
\* lists an invocation before the invocations its body makes.
ApplyBody(h, fn, v) ==
    IF Throws(fn)
    THEN Throw(h, CallbackError, <<Call(fn, <<v>>, Nothing)>>)
    ELSE Return(h, Val(FnValue(fn, v)), <<Call(fn, <<v>>, Val(FnValue(fn, v)))>>)

ApplyFn(h, fn, v) ==
    IF fn \in Composed
    THEN LET a == ApplyBody(h, Inner(fn), v)
         IN  IF a.thrown # NoError
             THEN Throw(h, a.thrown, <<Call(fn, <<v>>, Nothing)>> \o a.calls)
             ELSE LET b == ApplyBody(a.heap, Outer(fn), a.result.v)
                  IN  IF b.thrown # NoError
                      THEN Throw(h, b.thrown,
                                 <<Call(fn, <<v>>, Nothing)>> \o a.calls \o b.calls)
                      ELSE Return(h, b.result,
                                  <<Call(fn, <<v>>, b.result)>> \o a.calls \o b.calls)
    ELSE ApplyBody(h, fn, v)

ApplyPred(h, predicate, v) ==
    IF Throws(predicate)
    THEN Throw(h, CallbackError, <<Call(predicate, <<v>>, Nothing)>>)
    ELSE Return(h, Val(Bool(PredValue(predicate, v))),
                <<Call(predicate, <<v>>, Val(Bool(PredValue(predicate, v))))>>)

ApplyBin(h, fn, a, b) ==
    IF Throws(fn)
    THEN Throw(h, CallbackError, <<Call(fn, <<a, b>>, Nothing)>>)
    ELSE Return(h, Val(BinValue(fn, a, b)),
                <<Call(fn, <<a, b>>, Val(BinValue(fn, a, b)))>>)

\* Invocation of an Option-returning callback g on the arguments as (one
\* payload, or none for a thunk): runs the client's body on heap h.  The
\* bodies v => some(f(v)) ("wrap") and v => p(v) ? some(v) : none()
\* ("keepIf") invoke the client's f and p, which the log lists after g.
Invoke(h, g, as) ==
    CASE g.k = "none" -> Return(h, Ref(none), <<Call(g, as, Ref(none))>>)
      [] g.k = "captured" -> Return(h, Ref(g.r), <<Call(g, as, Ref(g.r))>>)
      [] g.k = "some" ->
            LET s == some(h, IF as = <<>> THEN g.v ELSE FnValue(g.f, as[1]))
            IN  Return(s.heap, Ref(s.ref), <<Call(g, as, Ref(s.ref))>>)
      [] g.k = "wrap" ->
            LET c == ApplyFn(h, g.f, as[1])
            IN  IF c.thrown # NoError
                THEN Throw(h, c.thrown, <<Call(g, as, Nothing)>> \o c.calls)
                ELSE LET s == some(c.heap, c.result.v)
                     IN  Return(s.heap, Ref(s.ref),
                                <<Call(g, as, Ref(s.ref))>> \o c.calls)
      [] g.k = "keepIf" ->
            LET c == ApplyPred(h, g.p, as[1])
            IN  IF c.thrown # NoError
                THEN Throw(h, c.thrown, <<Call(g, as, Nothing)>> \o c.calls)
                ELSE IF c.result.v = Bool(TRUE)
                     THEN LET s == some(c.heap, as[1])
                          IN  Return(s.heap, Ref(s.ref),
                                     <<Call(g, as, Ref(s.ref))>> \o c.calls)
                     ELSE Return(c.heap, Ref(none),
                                 <<Call(g, as, Ref(none))>> \o c.calls)
      [] OTHER -> Throw(h, CallbackError, <<Call(g, as, Nothing)>>)

\* An exception of a callee leaves the caller as it is: no statement of the
\* library catches.
Threw(out) == out.thrown # NoError

(***************************************************************************)
(* src/transformations.ts                                                  *)
(***************************************************************************)
\* Fault variant of filter: when the predicate fails it turns the container
\* it was given into a None in place and returns it.
filter_InPlace(h, option, predicate) ==
    IF isSome(h, option)
    THEN LET c == ApplyPred(h, predicate, h[option].value)
         IN  IF Threw(c) THEN c
             ELSE IF c.result.v = Bool(TRUE)
                  THEN Return(c.heap, Ref(option), c.calls)
                  ELSE Return([c.heap EXCEPT ![option] = [kind |-> "none"]],
                              Ref(option), c.calls)
    ELSE Return(h, Ref(none), <<>>)

\* Fault variant of filter: re-wraps the payload instead of returning the
\* option it was given.
filter_Copies(h, option, predicate) ==
    IF isSome(h, option)
    THEN LET c == ApplyPred(h, predicate, h[option].value)
         IN  IF Threw(c) THEN c
             ELSE IF c.result.v = Bool(TRUE)
                  THEN LET s == some(c.heap, h[option].value)
                       IN  Return(s.heap, Ref(s.ref), c.calls)
                  ELSE Return(c.heap, Ref(none), c.calls)
    ELSE Return(h, Ref(none), <<>>)

filter(h, option, predicate) ==
    IF isSome(h, option)
    THEN LET c == ApplyPred(h, predicate, h[option].value)
         IN  IF Threw(c) THEN c
             ELSE IF c.result.v = Bool(TRUE)
                  THEN Return(c.heap, Ref(option), c.calls)
                  ELSE Return(c.heap, Ref(none), c.calls)
    ELSE Return(h, Ref(none), <<>>)

\* Fault variant of map: returns the container it was given when fn left the
\* payload as it was.
map_ReusesOption(h, option, fn) ==
    IF isSome(h, option)
    THEN LET c == ApplyFn(h, fn, h[option].value)
         IN  IF Threw(c) THEN c
             ELSE IF c.result.v = h[option].value
                  THEN Return(c.heap, Ref(option), c.calls)
                  ELSE LET s == some(c.heap, c.result.v)
                       IN  Return(s.heap, Ref(s.ref), c.calls)
    ELSE Return(h, Ref(none), <<>>)

\* Fault variant of map: catches what fn throws and throws an OptionError
\* with the same message in its place.
map_WrapsError(h, option, fn) ==
    IF isSome(h, option)
    THEN LET c == ApplyFn(h, fn, h[option].value)
         IN  IF Threw(c) THEN Throw(c.heap, OptionError(Str(c.thrown.message)), c.calls)
             ELSE LET s == some(c.heap, c.result.v)
                  IN  Return(s.heap, Ref(s.ref), c.calls)
    ELSE Return(h, Ref(none), <<>>)

\* Fault variant of map: treats a null result of fn as absence.
map_DropsNull(h, option, fn) ==
    IF isSome(h, option)
    THEN LET c == ApplyFn(h, fn, h[option].value)
         IN  IF Threw(c) THEN c
             ELSE IF c.result.v = Null
                  THEN Return(c.heap, Ref(none), c.calls)
                  ELSE LET s == some(c.heap, c.result.v)
                       IN  Return(s.heap, Ref(s.ref), c.calls)
    ELSE Return(h, Ref(none), <<>>)

map(h, option, fn) ==
    IF isSome(h, option)
    THEN LET c == ApplyFn(h, fn, h[option].value)
         IN  IF Threw(c) THEN c
             ELSE LET s == some(c.heap, c.result.v)
                  IN  Return(s.heap, Ref(s.ref), c.calls)
    ELSE Return(h, Ref(none), <<>>)

\* Fault variant of flatMap: wraps what fn returned in a Some.
flatMap_Wraps(h, option, fn) ==
    IF isSome(h, option)
    THEN LET c == Invoke(h, fn, <<h[option].value>>)
         IN  IF Threw(c) THEN c
             ELSE LET s == some(c.heap, c.result)
                  IN  Return(s.heap, Ref(s.ref), c.calls)
    ELSE Return(h, Ref(none), <<>>)

flatMap(h, option, fn) ==
    IF isSome(h, option)
    THEN Invoke(h, fn, <<h[option].value>>)
    ELSE Return(h, Ref(none), <<>>)

\* Fault variant of liftA2: passes the payloads in the wrong order.
liftA2_Swapped(h, fn, option1, option2) ==
    IF isSome(h, option1) /\ isSome(h, option2)
    THEN LET c == ApplyBin(h, fn, h[option2].value, h[option1].value)
         IN  IF Threw(c) THEN c
             ELSE LET s == some(c.heap, c.result.v)
                  IN  Return(s.heap, Ref(s.ref), c.calls)
    ELSE Return(h, Ref(none), <<>>)

liftA2(h, fn, option1, option2) ==
    IF isSome(h, option1) /\ isSome(h, option2)
    THEN LET c == ApplyBin(h, fn, h[option1].value, h[option2].value)
         IN  IF Threw(c) THEN c
             ELSE LET s == some(c.heap, c.result.v)
                  IN  Return(s.heap, Ref(s.ref), c.calls)
    ELSE Return(h, Ref(none), <<>>)

\* Fault variant of matchOption: evaluates onNone before it looks at the option.
matchOption_Both(h, option, onSome, onNone) ==
    LET n == Invoke(h, onNone, <<>>)
    IN  IF Threw(n) THEN n
        ELSE IF isSome(h, option)
             THEN LET c == Invoke(n.heap, onSome, <<h[option].value>>)
                  IN  [c EXCEPT !.calls = n.calls \o c.calls]
             ELSE n

matchOption(h, option, onSome, onNone) ==
    IF isSome(h, option)
    THEN Invoke(h, onSome, <<h[option].value>>)
    ELSE Invoke(h, onNone, <<>>)

\* Fault variant of and: builds the pair in the wrong order.
and_Swapped(h, option1, option2) ==
    IF isSome(h, option1) /\ isSome(h, option2)
    THEN LET s == some(h, Arr(h[option2].value, h[option1].value))
         IN  Return(s.heap, Ref(s.ref), <<>>)
    ELSE Return(h, Ref(none), <<>>)

and(h, option1, option2) ==
    IF isSome(h, option1) /\ isSome(h, option2)
    THEN LET s == some(h, Arr(h[option1].value, h[option2].value))
         IN  Return(s.heap, Ref(s.ref), <<>>)
    ELSE Return(h, Ref(none), <<>>)

\* Fault variant of or: prefers the second option.
or_PrefersSecond(h, option1, option2) ==
    IF isSome(h, option2)
    THEN Return(h, Ref(option2), <<>>)
    ELSE Return(h, Ref(option1), <<>>)

or(h, option1, option2) ==
    IF isSome(h, option1)
    THEN Return(h, Ref(option1), <<>>)
    ELSE Return(h, Ref(option2), <<>>)

(***************************************************************************)
(* src/unwrapping.ts                                                       *)
(***************************************************************************)
\* Fault variant of unwrapOr: falls back to the default for a null or
\* undefined payload too (option.value ?? defaultValue).
unwrapOr_Nullish(h, option, defaultValue) ==
    IF isSome(h, option) /\ h[option].value \notin {Null, Undefined}
    THEN Return(h, Val(h[option].value), <<>>)
    ELSE Return(h, Val(defaultValue), <<>>)

\* Fault variant of unwrapOr: fails on a None like unwrap does.
unwrapOr_Throws(h, option, defaultValue) ==
    IF isSome(h, option)
    THEN Return(h, Val(h[option].value), <<>>)
    ELSE Throw(h, OptionError(Undefined), <<>>)

unwrapOr(h, option, defaultValue) ==
    IF isSome(h, option)
    THEN Return(h, Val(h[option].value), <<>>)
    ELSE Return(h, Val(defaultValue), <<>>)

\* Fault variant of unwrap: does not pass the message on to OptionError.
unwrap_DropsMessage(h, option, message) ==
    IF isSome(h, option)
    THEN Return(h, Val(h[option].value), <<>>)
    ELSE Throw(h, OptionError(Undefined), <<>>)

unwrap(h, option, message) ==
    IF isSome(h, option)
    THEN Return(h, Val(h[option].value), <<>>)
    ELSE Throw(h, OptionError(message), <<>>)

\* Fault variant of OrElse: evaluates the alternative before it looks at the
\* option, as or's caller does.
OrElse_Eager(h, option, alternative) ==
    LET a == Invoke(h, alternative, <<>>)
    IN  IF Threw(a) THEN a
        ELSE IF isSome(h, option)
             THEN Return(a.heap, Ref(option), a.calls)
             ELSE a

OrElse(h, option, alternative) ==
    IF isSome(h, option)
    THEN Return(h, Ref(option), <<>>)
    ELSE Invoke(h, alternative, <<>>)

(***************************************************************************)
(* src/from.ts                                                             *)
(***************************************************************************)
\* JavaScript's falsy values among the payloads.
Falsy(v) == v \in {Null, Undefined, Num(0), Bool(FALSE), Str("")}

\* Fault variant of fromNullable: tests truthiness instead of null/undefined.
fromNullable_Falsy(h, value) ==
    IF Falsy(value)
    THEN Return(h, Ref(none), <<>>)
    ELSE LET s == some(h, value) IN Return(s.heap, Ref(s.ref), <<>>)

\* Fault variant of fromNullable: builds a new { kind: 'none' } for null and
\* undefined.
fromNullable_FreshNone(h, value) ==
    IF value = Null \/ value = Undefined
    THEN Return(Append(h, [kind |-> "none"]), Ref(Len(h) + 1), <<>>)
    ELSE LET s == some(h, value) IN Return(s.heap, Ref(s.ref), <<>>)

fromNullable(h, value) ==
    IF value = Null \/ value = Undefined
    THEN Return(h, Ref(none), <<>>)
    ELSE LET s == some(h, value) IN Return(s.heap, Ref(s.ref), <<>>)

(***************************************************************************)
(* The client: one action per exported function.  A call is made only with *)
(* well-typed arguments and while the heap has room for what it allocates. *)
(***************************************************************************)
Fits(out) == Len(out.heap) <= MaxHeap

\* The call named o with arguments a had outcome out.
Record(o, a, out) ==
    /\ Fits(out)
    /\ heap' = out.heap
    /\ op' = o
    /\ args' = a
    /\ result' = out.result
    /\ thrown' = out.thrown
    /\ calls' = out.calls
    /\ UNCHANGED client

Refs == DOMAIN heap

\* The client has taken the outcome of its previous call.
Idle == op = "idle"

\* The example program before its first statement: let userID = 0 and
\* const userDB = [], no constant bound (0) and nothing printed.
ClientStart ==
    [pc |-> 0, userID |-> 0, userDB |-> <<>>,
     user1 |-> 0, user2 |-> 0, invalidUser |-> 0,
     nonExistentUser |-> 0, defaultUser |-> Undefined, log |-> <<>>]

Init ==
    /\ heap = <<[kind |-> "none"]>>
    /\ op = "idle"
    /\ args = <<>>
    /\ result = Nothing
    /\ thrown = NoError
    /\ calls = <<>>
    /\ client = ClientStart

DoSome ==
    /\ Idle
    /\ \E value \in Inputs :
           LET s == some(heap, value)
           IN  Record("some", [value |-> value], Return(s.heap, Ref(s.ref), <<>>))

\* Fault variant of none(): builds a new { kind: 'none' } at every call.
DoNone_Fresh ==
    /\ Idle
    /\ Record("none", <<>>,
              Return(Append(heap, [kind |-> "none"]), Ref(Len(heap) + 1), <<>>))

DoNone ==
    /\ Idle
    /\ Record("none", <<>>, Return(heap, Ref(none), <<>>))

\* The client writes a None of its own, { kind: 'none' } as Option<T>, as
\* the guard tests do: a container that is not the shared instance.
DoNoneLiteral ==
    /\ Idle
    /\ Record("literal", <<>>,
              Return(Append(heap, [kind |-> "none"]), Ref(Len(heap) + 1), <<>>))

DoIsSome ==
    /\ Idle
    /\ \E option \in Refs :
           Record("isSome", [option |-> option],
                  Return(heap, Val(Bool(isSome(heap, option))), <<>>))

DoIsNone ==
    /\ Idle
    /\ \E option \in Refs :
           Record("isNone", [option |-> option],
                  Return(heap, Val(Bool(isNone(heap, option))), <<>>))

DoFilter ==
    /\ Idle
    /\ \E option \in Refs, predicate \in Preds :
           /\ isSome(heap, option) => PredAccepts(predicate, heap[option].value)
           /\ Record("filter", [option |-> option, predicate |-> predicate],
                     filter(heap, option, predicate))

DoMap ==
    /\ Idle
    /\ \E option \in Refs, fn \in Fns :
           /\ isSome(heap, option) => FnAccepts(fn, heap[option].value)
           /\ Record("map", [option |-> option, fn |-> fn], map(heap, option, fn))

DoFlatMap ==
    /\ Idle
    /\ \E option \in Refs, fn \in OptFns :
           /\ isSome(heap, option) => OptFnAccepts(fn, heap[option].value)
           /\ Record("flatMap", [option |-> option, fn |-> fn],
                     flatMap(heap, option, fn))

DoLiftA2 ==
    /\ Idle
    /\ \E fn \in BinFns, option1 \in Refs, option2 \in Refs :
           /\ (isSome(heap, option1) /\ isSome(heap, option2))
                 => BinAccepts(fn, heap[option1].value, heap[option2].value)
           /\ Record("liftA2", [fn |-> fn, option1 |-> option1, option2 |-> option2],
                     liftA2(heap, fn, option1, option2))

DoMatchOption ==
    /\ Idle
    /\ \E option \in Refs, onSome \in OptFns, onNone \in Thunks(heap) :
           /\ isSome(heap, option) => OptFnAccepts(onSome, heap[option].value)
           /\ Record("matchOption",
                     [option |-> option, onSome |-> onSome, onNone |-> onNone],
                     matchOption(heap, option, onSome, onNone))

DoAnd ==
    /\ Idle
    /\ \E option1 \in Refs, option2 \in Refs :
           Record("and", [option1 |-> option1, option2 |-> option2],
                  and(heap, option1, option2))

DoOr ==
    /\ Idle
    /\ \E option1 \in Refs, option2 \in Refs :
           Record("or", [option1 |-> option1, option2 |-> option2],
                  or(heap, option1, option2))

DoUnwrapOr ==
    /\ Idle
    /\ \E option \in Refs, defaultValue \in Defaults :
           Record("unwrapOr", [option |-> option, defaultValue |-> defaultValue],
                  unwrapOr(heap, option, defaultValue))

DoUnwrap ==
    /\ Idle
    /\ \E option \in Refs, message \in Messages :
           Record("unwrap", [option |-> option, message |-> message],
                  unwrap(heap, option, message))

DoOrElse ==
    /\ Idle
    /\ \E option \in Refs, alternative \in Thunks(heap) :
           Record("OrElse", [option |-> option, alternative |-> alternative],
                  OrElse(heap, option, alternative))

DoFromNullable ==
    /\ Idle
    /\ \E value \in Inputs :
           Record("fromNullable", [value |-> value], fromNullable(heap, value))

\* The client takes the outcome of its last call and goes on; the containers
\* stay where they are.
Proceed ==
    /\ op # "idle"
    /\ op' = "idle"
    /\ args' = <<>>
    /\ result' = Nothing
    /\ thrown' = NoError
    /\ calls' = <<>>
    /\ UNCHANGED <<heap, client>>

Next ==
    \/ DoSome
    \/ DoNone
    \/ DoNoneLiteral
    \/ DoIsSome
    \/ DoIsNone
    \/ DoFilter
    \/ DoMap
    \/ DoFlatMap
    \/ DoLiftA2
    \/ DoMatchOption
    \/ DoAnd
    \/ DoOr
    \/ DoUnwrapOr
    \/ DoUnwrap
    \/ DoOrElse
    \/ DoFromNullable
    \/ Proceed

Spec == Init /\ [][Next]_vars

TypeOK ==
    /\ Len(heap) \in 1..MaxHeap
    /\ heap[NONE] = [kind |-> "none"]
    /\ \A r \in DOMAIN heap : heap[r].kind \in {"some", "none"}

(***************************************************************************)
(* A client that evaluates two expressions over the same option and keeps  *)
(* both outcomes: what each returned or threw, and the invocations made.   *)
(***************************************************************************)
Outcome(out) == [result |-> out.result, thrown |-> out.thrown, calls |-> out.calls]

\* map(map(option, f), g)
mapNested(h, option, f, g) ==
    LET inner == map(h, option, f)
    IN  IF Threw(inner) THEN inner
        ELSE LET outer == map(inner.heap, inner.result.r, g)
             IN  [outer EXCEPT !.calls = inner.calls \o outer.calls]

\* map(option, x => g(f(x)))
mapFused(h, option, f, g) == map(h, option, Compose(f, g))

DoMapComposition ==
    /\ Idle
    /\ Fits([heap |-> heap])
    /\ \E option \in Refs, f \in Fns, g \in Fns :
           /\ isSome(heap, option) =>
                  /\ FnAccepts(f, heap[option].value)
                  /\ ~Throws(f) => FnAccepts(g, FnValue(f, heap[option].value))
           /\ \E nested \in {mapNested(heap, option, f, g)} :
              \E fused \in {mapFused(nested.heap, option, f, g)} :
               /\ heap' = fused.heap
               /\ op' = "mapComposition"
               /\ args' = [option |-> option, f |-> f, g |-> g]
               /\ result' = [t |-> "both", nested |-> Outcome(nested),
                                          fused |-> Outcome(fused)]
               /\ thrown' = NoError
               /\ calls' = nested.calls \o fused.calls
               /\ UNCHANGED client

\* The client evaluated a transformation directly (first) and then as a
\* matchOption (second) and keeps both outcomes.
Both(o, a, first, second) ==
    /\ heap' = second.heap
    /\ op' = o
    /\ args' = a
    /\ result' = [t |-> "both", direct |-> Outcome(first),
                               viaMatch |-> Outcome(second)]
    /\ thrown' = NoError
    /\ calls' = first.calls \o second.calls
    /\ UNCHANGED client

\* map(o, f) and matchOption(o, v => some(f(v)), () => none())
DoMapAsMatch ==
    /\ Idle
    /\ Fits([heap |-> heap])
    /\ \E option \in Refs, f \in Fns :
           LET first == map(heap, option, f)
               second == matchOption(first.heap, option,
                                     [k |-> "wrap", f |-> f], [k |-> "none"])
           IN  /\ isSome(heap, option) => FnAccepts(f, heap[option].value)
               /\ Both("mapAsMatch", [option |-> option, f |-> f], first, second)

\* flatMap(o, f) and matchOption(o, f, () => none())
DoFlatMapAsMatch ==
    /\ Idle
    /\ Fits([heap |-> heap])
    /\ \E option \in Refs, f \in OptFns :
           LET first == flatMap(heap, option, f)
               second == matchOption(first.heap, option, f, [k |-> "none"])
           IN  /\ isSome(heap, option) => OptFnAccepts(f, heap[option].value)
               /\ Both("flatMapAsMatch", [option |-> option, f |-> f], first, second)

\* filter(o, p) and matchOption(o, v => p(v) ? some(v) : none(), () => none())
DoFilterAsMatch ==
    /\ Idle
    /\ Fits([heap |-> heap])
    /\ \E option \in Refs, p \in Preds :
           LET first == filter(heap, option, p)
               second == matchOption(first.heap, option,
                                     [k |-> "keepIf", p |-> p], [k |-> "none"])
           IN  /\ isSome(heap, option) => PredAccepts(p, heap[option].value)
               /\ Both("filterAsMatch", [option |-> option, p |-> p], first, second)

\* or(o, x) and OrElse(o, () => x) for two options the client holds
DoOrAsOrElse ==
    /\ Idle
    /\ Fits([heap |-> heap])
    /\ \E o \in Refs, x \in Refs :
           LET eager == or(heap, o, x)
               lazy == OrElse(eager.heap, o, [k |-> "captured", r |-> x])
           IN  /\ heap' = lazy.heap
               /\ op' = "orAsOrElse"
               /\ args' = [o |-> o, x |-> x]
               /\ result' = [t |-> "both", eager |-> Outcome(eager),
                                          lazy |-> Outcome(lazy)]
               /\ thrown' = NoError
               /\ calls' = eager.calls \o lazy.calls
               /\ UNCHANGED client

NextLaws ==
    \/ DoSome
    \/ DoNoneLiteral
    \/ DoMapComposition
    \/ DoMapAsMatch
    \/ DoFlatMapAsMatch
    \/ DoFilterAsMatch
    \/ DoOrAsOrElse
    \/ Proceed

SpecLaws == Init /\ [][NextLaws]_vars

(***************************************************************************)
(* The example program of the README: an in-memory user database and the   *)
(* statements of "Example usage", one action per statement together with   *)
(* the console.log that follows it.  The names and emails given to         *)
(* createUser are inputs; the README passes 'Alice', 'Bob' and 'C'.  The    *)
(* program is followed up to its call of mapWithDefault, which the library *)
(* does not export.                                                        *)
(***************************************************************************)
Names == {"Alice", "Bob", "C", " Al "}
Emails == {"alice@example.com", "bob@example.com", "charlie"}

\* name.trim() and email.includes('@') on the inputs above.
Trim(name) == IF name = " Al " THEN "Al" ELSE name
IncludesAt(email) == email \in {"alice@example.com", "bob@example.com"}

User(id, name, email) == [t |-> "user", id |-> id, name |-> name, email |-> email]

\* userDB.findIndex(u => u.id === id), 0 standing for -1.
FindIndex(db, id) ==
    IF \E i \in DOMAIN db : db[i].id = id
    THEN CHOOSE i \in DOMAIN db :
             db[i].id = id /\ \A j \in DOMAIN db : db[j].id = id => i <= j
    ELSE 0

\* userDB.find(user => user.email === userEmail)
FindByEmail(db, userEmail) ==
    IF \E i \in DOMAIN db : db[i].email = userEmail
    THEN db[CHOOSE i \in DOMAIN db :
                db[i].email = userEmail
                    /\ \A j \in DOMAIN db : db[j].email = userEmail => i <= j]
    ELSE Undefined

\* createUser(name, email) with the program state c: the option returned,
\* the heap and the program state after it.
createUser(h, c, name, email) ==
    IF Len(Trim(name)) < 3 \/ ~IncludesAt(email)
    THEN [heap |-> h, ref |-> none, client |-> c]
    ELSE LET user == User(c.userID + 1, name, email)
             s == some(h, user)
         IN  [heap |-> s.heap, ref |-> s.ref,
              client |-> [c EXCEPT !.userID = c.userID + 1,
                                   !.userDB = Append(c.userDB, user)]]

getUserByEmail(h, c, userEmail) == fromNullable(h, FindByEmail(c.userDB, userEmail))

\* The callback (u) => updateUser({ ...u, name: 'Alicia' }) as it acts on the
\* database db when it is given u: updateUser answers none() for an id the
\* database does not hold and some(user) otherwise.
Updating(db, u) ==
    IF FindIndex(db, u.id) = 0 THEN [k |-> "none"] ELSE [k |-> "some", f |-> "renamed"]

\* userDB[index] = user, done by updateUser when it found the index.
Updated(db, u) ==
    IF FindIndex(db, u.id) = 0 THEN db
    ELSE [db EXCEPT ![FindIndex(db, u.id)] = FnValue("renamed", u)]

\* console.log(label, value)
Logged(c, label, value) ==
    [c EXCEPT !.log = Append(c.log, [label |-> label, value |-> value])]

At(n) == client.pc = n
Step(c) == client' = [c EXCEPT !.pc = client.pc + 1]
Quiet == UNCHANGED <<op, args, result, thrown, calls>>

CreateUser1 ==
    /\ At(0)
    /\ \E name \in Names, email \in Emails :
           LET r == createUser(heap, client, name, email)
           IN  /\ heap' = r.heap
               /\ Step([r.client EXCEPT !.user1 = r.ref])
    /\ Quiet

CreateUser2 ==
    /\ At(1)
    /\ \E name \in Names, email \in Emails :
           LET r == createUser(heap, client, name, email)
           IN  /\ heap' = r.heap
               /\ Step([r.client EXCEPT !.user2 = r.ref])
    /\ Quiet

CreateInvalidUser ==
    /\ At(2)
    /\ \E name \in Names, email \in Emails :
           LET r == createUser(heap, client, name, email)
           IN  /\ heap' = r.heap
               /\ Step([r.client EXCEPT !.invalidUser = r.ref])
    /\ Quiet

CheckUsersExist ==
    /\ At(3)
    /\ Step(Logged(Logged(client, "User1 exists:", Bool(isSome(heap, client.user1))),
                   "Invalid user exists:", Bool(isNone(heap, client.invalidUser))))
    /\ UNCHANGED heap
    /\ Quiet

MapUserName ==
    /\ At(4)
    /\ LET userName == map(heap, client.user1, "name")
           shown == unwrapOr(userName.heap, userName.result.r, Str("Unknown"))
       IN  /\ heap' = shown.heap
           /\ Step(Logged(client, "User1 name:", shown.result.v))
    /\ Quiet

FlatMapUpdateUser ==
    /\ At(5)
    /\ LET u == heap[client.user1].value
           fn == IF isSome(heap, client.user1)
                 THEN Updating(client.userDB, u) ELSE [k |-> "none"]
           updatedUser == flatMap(heap, client.user1, fn)
           db == IF updatedUser.calls = <<>> THEN client.userDB
                 ELSE Updated(client.userDB, u)
           shown == unwrapOr(updatedUser.heap, updatedUser.result.r, Null)
       IN  /\ heap' = shown.heap
           /\ Step(Logged([client EXCEPT !.userDB = db], "Updated user:", shown.result.v))
    /\ Quiet

FilterLongName ==
    /\ At(6)
    /\ LET longNameUser == filter(heap, client.user2, "longName")
           shown == unwrapOr(longNameUser.heap, longNameUser.result.r, Null)
       IN  /\ heap' = shown.heap
           /\ Step(Logged(client, "Long name user:", shown.result.v))
    /\ Quiet

UnwrapNonExistent ==
    /\ At(7)
    /\ LET nonExistentUser == getUserByEmail(heap, client, "nonexistent@mail.com")
           tried == unwrap(nonExistentUser.heap, nonExistentUser.result.r, Undefined)
           c == [client EXCEPT !.nonExistentUser = nonExistentUser.result.r]
       IN  /\ heap' = tried.heap
           /\ Step(IF Threw(tried) THEN Logged(c, "Error:", Str(tried.thrown.message))
                   ELSE c)
    /\ Quiet

DefaultWithUnwrapOr ==
    /\ At(8)
    /\ LET guest == User(client.userID + 1, "Guest", "guest@example.com")
           defaultUser == unwrapOr(heap, client.nonExistentUser, guest)
       IN  /\ heap' = defaultUser.heap
           /\ Step(Logged([client EXCEPT !.userID = client.userID + 1,
                                         !.defaultUser = defaultUser.result.v],
                          "Default user:", defaultUser.result.v))
    /\ Quiet

CombineWithAnd ==
    /\ At(9)
    /\ LET userPair == and(heap, client.user1, client.user2)
           shown == unwrapOr(userPair.heap, userPair.result.r, Null)
       IN  /\ heap' = shown.heap
           /\ Step(Logged(client, "User pair:", shown.result.v))
    /\ Quiet

FallbackWithOr ==
    /\ At(10)
    /\ LET s == some(heap, client.defaultUser)
           fallbackUser == or(s.heap, client.nonExistentUser, s.ref)
           shown == unwrapOr(fallbackUser.heap, fallbackUser.result.r, Null)
       IN  /\ heap' = shown.heap
           /\ Step(Logged(client, "Fallback user:", shown.result.v))
    /\ Quiet

CombineWithLiftA2 ==
    /\ At(11)
    /\ LET combinedNames == liftA2(heap, "names", client.user1, client.user2)
           shown == unwrapOr(combinedNames.heap, combinedNames.result.r, Str("No pair"))
       IN  /\ heap' = shown.heap
           /\ Step(Logged(client, "Combined names:", shown.result.v))
    /\ Quiet

MatchNonExistent ==
    /\ At(12)
    /\ LET matched == matchOption(heap, client.nonExistentUser,
                                  [k |-> "some", f |-> "found"],
                                  [k |-> "some", v |-> Str("No user found")])
           shown == unwrap(matched.heap, matched.result.r, Undefined)
       IN  /\ heap' = shown.heap
           /\ Step(Logged(client, "Matched result:", shown.result.v))
    /\ Quiet

NextReadme ==
    \/ CreateUser1
    \/ CreateUser2
    \/ CreateInvalidUser
    \/ CheckUsersExist
    \/ MapUserName
    \/ FlatMapUpdateUser
    \/ FilterLongName
    \/ UnwrapNonExistent
    \/ DefaultWithUnwrapOr
    \/ CombineWithAnd
    \/ FallbackWithOr
    \/ CombineWithLiftA2
    \/ MatchNonExistent

SpecReadme == Init /\ [][NextReadme]_vars

(***************************************************************************)
(* The single-file build of the library (one file holding OptionError, the *)
(* Option type, guards, transformations, unwrapping and fromNullable).  It *)
(* is a module of its own, so it has its own NONE object; its orElse is    *)
(* the modular file's OrElse.  Its definitions carry the prefix Single_.   *)
(***************************************************************************)
Single_DefaultMessage == "Attempted to unwrap a None value"

Single_OptionError(message) ==
    [name |-> "OptionError",
     message |-> IF message = Undefined THEN Single_DefaultMessage ELSE message.s]

\* const NONE: None = { kind: 'none' }, allocated when the file is loaded.
Single_NONE == 2

Single_some(h, value) ==
    [heap |-> Append(h, [kind |-> "some", value |-> value]), ref |-> Len(h) + 1]

Single_none == Single_NONE

Single_isSome(h, option) == h[option].kind = "some"

Single_isNone(h, option) == h[option].kind = "none"

Single_map(h, option, fn) ==
    IF Single_isSome(h, option)
    THEN LET c == ApplyFn(h, fn, h[option].value)
         IN  IF Threw(c) THEN c
             ELSE LET s == Single_some(c.heap, c.result.v)
                  IN  Return(s.heap, Ref(s.ref), c.calls)
    ELSE Return(h, Ref(Single_none), <<>>)

Single_flatMap(h, option, fn) ==
    IF Single_isSome(h, option)
    THEN Invoke(h, fn, <<h[option].value>>)
    ELSE Return(h, Ref(Single_none), <<>>)

Single_filter(h, option, predicate) ==
    IF Single_isSome(h, option)
    THEN LET c == ApplyPred(h, predicate, h[option].value)
         IN  IF Threw(c) THEN c
             ELSE IF c.result.v = Bool(TRUE)
                  THEN Return(c.heap, Ref(option), c.calls)
                  ELSE Return(c.heap, Ref(Single_none), c.calls)
    ELSE Return(h, Ref(Single_none), <<>>)

Single_liftA2(h, fn, option1, option2) ==
    IF Single_isSome(h, option1) /\ Single_isSome(h, option2)
    THEN LET c == ApplyBin(h, fn, h[option1].value, h[option2].value)
         IN  IF Threw(c) THEN c
             ELSE LET s == Single_some(c.heap, c.result.v)
                  IN  Return(s.heap, Ref(s.ref), c.calls)
    ELSE Return(h, Ref(Single_none), <<>>)

Single_matchOption(h, option, onSome, onNone) ==
    IF Single_isSome(h, option)
    THEN Invoke(h, onSome, <<h[option].value>>)
    ELSE Invoke(h, onNone, <<>>)

Single_and(h, option1, option2) ==
    IF Single_isSome(h, option1) /\ Single_isSome(h, option2)
    THEN LET s == Single_some(h, Arr(h[option1].value, h[option2].value))
         IN  Return(s.heap, Ref(s.ref), <<>>)
    ELSE Return(h, Ref(Single_none), <<>>)

Single_or(h, option1, option2) ==
    IF Single_isSome(h, option1)
    THEN Return(h, Ref(option1), <<>>)
    ELSE Return(h, Ref(option2), <<>>)

Single_unwrapOr(h, option, defaultValue) ==
    IF Single_isSome(h, option)
    THEN Return(h, Val(h[option].value), <<>>)
    ELSE Return(h, Val(defaultValue), <<>>)

Single_unwrap(h, option, message) ==
    IF Single_isSome(h, option)
    THEN Return(h, Val(h[option].value), <<>>)
    ELSE Throw(h, Single_OptionError(message), <<>>)

orElse(h, option, alternative) ==
    IF Single_isSome(h, option)
    THEN Return(h, Ref(option), <<>>)
    ELSE Invoke(h, alternative, <<>>)

Single_fromNullable(h, value) ==
    IF value = Null \/ value = Undefined
    THEN Return(h, Ref(Single_none), <<>>)
    ELSE LET s == Single_some(h, value) IN Return(s.heap, Ref(s.ref), <<>>)

(***************************************************************************)
(* A program that loads both builds and makes the same call on each: first *)
(* the modular function, then the single-file one on the same arguments.   *)
(***************************************************************************)
InitFiles ==
    /\ heap = <<[kind |-> "none"], [kind |-> "none"]>>
    /\ op = "idle"
    /\ args = <<>>
    /\ result = Nothing
    /\ thrown = NoError
    /\ calls = <<>>
    /\ client = ClientStart

\* The client made the call o with arguments a on both builds.
Twice(o, a, first, second) ==
    /\ Fits([heap |-> heap])
    /\ heap' = second.heap
    /\ op' = o
    /\ args' = a
    /\ result' = [t |-> "both", modular |-> Outcome(first), single |-> Outcome(second)]
    /\ thrown' = NoError
    /\ calls' = first.calls \o second.calls
    /\ UNCHANGED client

TwiceSome ==
    /\ Idle
    /\ \E value \in Inputs :
           LET a == some(heap, value)
               b == Single_some(a.heap, value)
           IN  Twice("some", [value |-> value],
                     Return(a.heap, Ref(a.ref), <<>>), Return(b.heap, Ref(b.ref), <<>>))

TwiceNone ==
    /\ Idle
    /\ Twice("none", <<>>, Return(heap, Ref(none), <<>>),
             Return(heap, Ref(Single_none), <<>>))

TwiceIsSome ==
    /\ Idle
    /\ \E option \in Refs :
           Twice("isSome", [option |-> option],
                 Return(heap, Val(Bool(isSome(heap, option))), <<>>),
                 Return(heap, Val(Bool(Single_isSome(heap, option))), <<>>))

TwiceIsNone ==
    /\ Idle
    /\ \E option \in Refs :
           Twice("isNone", [option |-> option],
                 Return(heap, Val(Bool(isNone(heap, option))), <<>>),
                 Return(heap, Val(Bool(Single_isNone(heap, option))), <<>>))

TwiceFilter ==
    /\ Idle
    /\ \E option \in Refs, predicate \in Preds :
           LET a == filter(heap, option, predicate)
           IN  /\ isSome(heap, option) => PredAccepts(predicate, heap[option].value)
               /\ Twice("filter", [option |-> option, predicate |-> predicate],
                        a, Single_filter(a.heap, option, predicate))

TwiceMap ==
    /\ Idle
    /\ \E option \in Refs, fn \in Fns :
           LET a == map(heap, option, fn)
           IN  /\ isSome(heap, option) => FnAccepts(fn, heap[option].value)
               /\ Twice("map", [option |-> option, fn |-> fn],
                        a, Single_map(a.heap, option, fn))

TwiceFlatMap ==
    /\ Idle
    /\ \E option \in Refs, fn \in OptFns :
           LET a == flatMap(heap, option, fn)
           IN  /\ isSome(heap, option) => OptFnAccepts(fn, heap[option].value)
               /\ Twice("flatMap", [option |-> option, fn |-> fn],
                        a, Single_flatMap(a.heap, option, fn))

TwiceLiftA2 ==
    /\ Idle
    /\ \E fn \in BinFns, option1 \in Refs, option2 \in Refs :
           LET a == liftA2(heap, fn, option1, option2)
           IN  /\ (isSome(heap, option1) /\ isSome(heap, option2))
                     => BinAccepts(fn, heap[option1].value, heap[option2].value)
               /\ Twice("liftA2", [fn |-> fn, option1 |-> option1, option2 |-> option2],
                        a, Single_liftA2(a.heap, fn, option1, option2))

TwiceMatchOption ==
    /\ Idle
    /\ \E option \in Refs, onSome \in OptFns, onNone \in Thunks(heap) :
           LET a == matchOption(heap, option, onSome, onNone)
           IN  /\ isSome(heap, option) => OptFnAccepts(onSome, heap[option].value)
               /\ Twice("matchOption",
                        [option |-> option, onSome |-> onSome, onNone |-> onNone],
                        a, Single_matchOption(a.heap, option, onSome, onNone))

TwiceAnd ==
    /\ Idle
    /\ \E option1 \in Refs, option2 \in Refs :
           LET a == and(heap, option1, option2)
           IN  Twice("and", [option1 |-> option1, option2 |-> option2],
                     a, Single_and(a.heap, option1, option2))

TwiceOr ==
    /\ Idle
    /\ \E option1 \in Refs, option2 \in Refs :
           LET a == or(heap, option1, option2)
           IN  Twice("or", [option1 |-> option1, option2 |-> option2],
                     a, Single_or(a.heap, option1, option2))

TwiceUnwrapOr ==
    /\ Idle
    /\ \E option \in Refs, defaultValue \in Defaults :
           LET a == unwrapOr(heap, option, defaultValue)
           IN  Twice("unwrapOr", [option |-> option, defaultValue |-> defaultValue],
                     a, Single_unwrapOr(a.heap, option, defaultValue))

TwiceUnwrap ==
    /\ Idle
    /\ \E option \in Refs, message \in Messages :
           LET a == unwrap(heap, option, message)
           IN  Twice("unwrap", [option |-> option, message |-> message],
                     a, Single_unwrap(a.heap, option, message))

TwiceOrElse ==
    /\ Idle
    /\ \E option \in Refs, alternative \in Thunks(heap) :
           LET a == OrElse(heap, option, alternative)
           IN  Twice("OrElse", [option |-> option, alternative |-> alternative],
                     a, orElse(a.heap, option, alternative))

TwiceFromNullable ==
    /\ Idle
    /\ \E value \in Inputs :
           LET a == fromNullable(heap, value)
           IN  Twice("fromNullable", [value |-> value],
                     a, Single_fromNullable(a.heap, value))

NextFiles ==
    \/ DoSome
    \/ TwiceSome
    \/ TwiceNone
    \/ TwiceIsSome
    \/ TwiceIsNone
    \/ TwiceFilter
    \/ TwiceMap
    \/ TwiceFlatMap
    \/ TwiceLiftA2
    \/ TwiceMatchOption
    \/ TwiceAnd
    \/ TwiceOr
    \/ TwiceUnwrapOr
    \/ TwiceUnwrap
    \/ TwiceOrElse
    \/ TwiceFromNullable
    \/ Proceed

SpecFiles == InitFiles /\ [][NextFiles]_vars

(***************************************************************************)
(* Properties.                                                             *)
(***************************************************************************)
\* The container a reference denotes, and the option arguments of the call.
Obj(r) == heap[r]
IsSomeRef(r) == Obj(r).kind = "some"
IsNoneRef(r) == Obj(r).kind = "none"

\* The call returned normally / returned the option r / returned a None.
Returned == op # "idle" /\ thrown = NoError /\ result # Nothing
ReturnedNone == Returned /\ result.t = "ref" /\ IsNoneRef(result.r)
ReturnedSomeOf(v) ==
    Returned /\ result.t = "ref" /\ Obj(result.r) = [kind |-> "some", value |-> v]

\* A callback raised during the call.
CallbackRaised == \E i \in DOMAIN calls : calls[i].ret = Nothing

\* C1: unwrap returns the payload of a Some; on a None it raises an
\* OptionError with the caller's message if one was supplied and the default
\* message otherwise, and returns nothing.
C1_Unwrap ==
    op = "unwrap" =>
        IF IsSomeRef(args.option)
        THEN thrown = NoError /\ result = Val(Obj(args.option).value)
        ELSE /\ result = Nothing
             /\ thrown.name = "OptionError"
             /\ args.message # Undefined => thrown.message = args.message.s
             /\ args.message = Undefined => thrown.message = DefaultMessage

C1_Witness ==
    /\ op = "unwrap"
    /\ IsNoneRef(args.option)
    /\ args.message = Str("custom message")
    /\ thrown = [name |-> "OptionError", message |-> "custom message"]

\* C2: with callbacks that do not raise, every call other than unwrap on a
\* None returns normally, and an OptionError comes from unwrap on a None only.
C2_OnlyUnwrapFails ==
    /\ (op # "idle" /\ ~CallbackRaised /\ ~(op = "unwrap" /\ IsNoneRef(args.option)))
          => Returned
    /\ (thrown # NoError /\ thrown.name = "OptionError")
          => (op = "unwrap" /\ IsNoneRef(args.option))

C2_Witness ==
    /\ op = "unwrapOr"
    /\ IsNoneRef(args.option)
    /\ Returned

\* C3: OrElse on a Some returns that very option and does not invoke the
\* alternative; on a None it invokes the alternative exactly once, with no
\* argument, and returns what the alternative returned.
C3_OrElseLazy ==
    op = "OrElse" =>
        IF IsSomeRef(args.option)
        THEN Returned /\ result = Ref(args.option) /\ calls = <<>>
        ELSE /\ Len(calls) = 1
             /\ calls[1].cb = args.alternative
             /\ calls[1].args = <<>>
             /\ ~CallbackRaised => (Returned /\ result = calls[1].ret)
             /\ args.alternative.k = "captured" => result = Ref(args.alternative.r)
             /\ args.alternative.k = "none" => ReturnedNone
             /\ args.alternative.k = "some" => ReturnedSomeOf(args.alternative.v)

C3_Witness ==
    /\ op = "OrElse"
    /\ IsSomeRef(args.option)
    /\ args.alternative.k = "some"
    /\ result = Ref(args.option)
    /\ calls = <<>>

\* C4: fromNullable(v) is None exactly when v is null or undefined and is a
\* Some holding v for every other v, the falsy 0, false and "" included.
C4_FromNullable ==
    op = "fromNullable" =>
        IF args.value \in {Null, Undefined}
        THEN ReturnedNone
        ELSE ReturnedSomeOf(args.value)

C4_Witness ==
    /\ op = "fromNullable"
    /\ args.value = Bool(FALSE)
    /\ ReturnedSomeOf(Bool(FALSE))

\* C5: map on Some(v) invokes fn exactly once, with v, and returns
\* Some(fn(v)), a Some whatever fn returns; map on a None returns None and
\* does not invoke fn.  map(some(v), identity) is some(v).
C5_Map ==
    op = "map" =>
        IF IsSomeRef(args.option)
        THEN /\ Len(calls) = 1
             /\ calls[1].cb = args.fn
             /\ calls[1].args = <<Obj(args.option).value>>
             /\ ~CallbackRaised =>
                    /\ ReturnedSomeOf(FnValue(args.fn, Obj(args.option).value))
                    /\ ReturnedSomeOf(calls[1].ret.v)
             /\ args.fn = "identity" => ReturnedSomeOf(Obj(args.option).value)
             /\ args.fn = "toNull" => ReturnedSomeOf(Null)
        ELSE ReturnedNone /\ calls = <<>>

C5_Witness ==
    /\ op = "map"
    /\ args.fn = "double"
    /\ Obj(args.option) = [kind |-> "some", value |-> Num(1)]
    /\ ReturnedSomeOf(Num(2))

\* C6: flatMap on Some(v) invokes fn once, with v, and returns exactly the
\* option fn returned, Some or None, with no additional wrapping; flatMap on
\* a None returns None and does not invoke fn.
C6_FlatMap ==
    op = "flatMap" =>
        IF IsSomeRef(args.option)
        THEN /\ Len(calls) = 1
             /\ calls[1].cb = args.fn
             /\ calls[1].args = <<Obj(args.option).value>>
             /\ ~CallbackRaised => (Returned /\ result = calls[1].ret)
             /\ args.fn.k = "none" => ReturnedNone
             /\ args.fn.k = "some" =>
                    ReturnedSomeOf(FnValue(args.fn.f, Obj(args.option).value))
        ELSE ReturnedNone /\ calls = <<>>

C6_Witness ==
    /\ op = "flatMap"
    /\ args.fn = [k |-> "some", f |-> "double"]
    /\ Obj(args.option) = [kind |-> "some", value |-> Num(1)]
    /\ ReturnedSomeOf(Num(2))

\* C7: filter on Some(v) with p(v) true returns the very container it was
\* given; with p(v) false, or on a None, it returns None; p is not invoked
\* on a None.
C7_Filter ==
    op = "filter" =>
        IF IsSomeRef(args.option)
        THEN /\ Len(calls) = 1
             /\ calls[1].args = <<Obj(args.option).value>>
             /\ (~CallbackRaised /\ PredValue(args.predicate, Obj(args.option).value))
                    => (Returned /\ result = Ref(args.option))
             /\ (~CallbackRaised /\ ~PredValue(args.predicate, Obj(args.option).value))
                    => ReturnedNone
        ELSE ReturnedNone /\ calls = <<>>

C7_Witness ==
    /\ op = "filter"
    /\ args.predicate = "positive"
    /\ Obj(args.option) = [kind |-> "some", value |-> Num(1)]
    /\ result = Ref(args.option)

\* C8: matchOption invokes exactly one of its callbacks, exactly once: onSome
\* with the payload on a Some, onNone with no argument on a None; the result
\* is what that callback returned.
C8_MatchOption ==
    op = "matchOption" =>
        /\ Len(calls) = 1
        /\ IsSomeRef(args.option) =>
               (calls[1].cb = args.onSome /\ calls[1].args = <<Obj(args.option).value>>)
        /\ IsNoneRef(args.option) =>
               (calls[1].cb = args.onNone /\ calls[1].args = <<>>)
        /\ ~CallbackRaised => (Returned /\ result = calls[1].ret)

C8_Witness ==
    /\ op = "matchOption"
    /\ IsNoneRef(args.option)
    /\ args.onSome.k = "none"
    /\ args.onNone.k = "some"
    /\ ReturnedSomeOf(Num(0))

\* C9: liftA2 on two Somes invokes fn once, with the payloads in argument
\* order, and returns Some(fn(v1, v2)); when either option is None it returns
\* None and does not invoke fn.
C9_LiftA2 ==
    op = "liftA2" =>
        IF IsSomeRef(args.option1) /\ IsSomeRef(args.option2)
        THEN /\ Len(calls) = 1
             /\ calls[1].cb = args.fn
             /\ calls[1].args = <<Obj(args.option1).value, Obj(args.option2).value>>
             /\ ~CallbackRaised =>
                    ReturnedSomeOf(BinValue(args.fn, Obj(args.option1).value,
                                            Obj(args.option2).value))
        ELSE ReturnedNone /\ calls = <<>>

C9_Witness ==
    /\ op = "liftA2"
    /\ args.fn = "left"
    /\ Obj(args.option1) = [kind |-> "some", value |-> Null]
    /\ Obj(args.option2) = [kind |-> "some", value |-> Num(1)]
    /\ ReturnedSomeOf(Null)

\* C10: and on two Somes returns Some of the pair [v1, v2], first payload
\* first; when either option is None it returns None.
C10_And ==
    op = "and" =>
        IF IsSomeRef(args.option1) /\ IsSomeRef(args.option2)
        THEN ReturnedSomeOf(Arr(Obj(args.option1).value, Obj(args.option2).value))
        ELSE ReturnedNone

C10_Witness ==
    /\ op = "and"
    /\ Obj(args.option1) = [kind |-> "some", value |-> Num(0)]
    /\ Obj(args.option2) = [kind |-> "some", value |-> Str("")]
    /\ ReturnedSomeOf(Arr(Num(0), Str("")))

\* C11: or returns its first argument itself when that is a Some, whatever
\* the second is, and its second argument itself otherwise, Some or None; the
\* result is always one of the two arguments and or(none(), none()) is None.
C11_Or ==
    op = "or" =>
        /\ Returned
        /\ IsSomeRef(args.option1) => result = Ref(args.option1)
        /\ IsNoneRef(args.option1) => result = Ref(args.option2)
        /\ (IsNoneRef(args.option1) /\ IsNoneRef(args.option2)) => ReturnedNone
        /\ result \in {Ref(args.option1), Ref(args.option2)}

C11_Witness ==
    /\ op = "or"
    /\ IsNoneRef(args.option1)
    /\ IsSomeRef(args.option2)
    /\ result = Ref(args.option2)

\* C12: unwrapOr returns the payload of a Some, a null or falsy payload
\* included, and the default on a None; it never raises.
C12_UnwrapOr ==
    op = "unwrapOr" =>
        /\ thrown = NoError
        /\ IsSomeRef(args.option) => result = Val(Obj(args.option).value)
        /\ IsNoneRef(args.option) => result = Val(args.defaultValue)

C12_Witness ==
    /\ op = "unwrapOr"
    /\ Obj(args.option) = [kind |-> "some", value |-> Null]
    /\ args.defaultValue = Num(1)
    /\ result = Val(Null)

\* C13: isSome is true exactly for a Some and isNone exactly for a None, so
\* isNone is the negation of isSome; only the discriminant decides, so a None
\* that is not the shared instance is classified like none().
C13_Guards ==
    /\ op = "isSome" =>
           /\ Returned
           /\ result = Val(Bool(TRUE)) <=> Obj(args.option).kind = "some"
           /\ result = Val(Bool(FALSE)) <=> Obj(args.option).kind = "none"
    /\ op = "isNone" =>
           /\ Returned
           /\ result = Val(Bool(TRUE)) <=> Obj(args.option).kind = "none"
           /\ result = Val(Bool(FALSE)) <=> Obj(args.option).kind = "some"
           /\ result = Val(Bool(~isSome(heap, args.option)))

C13_Witness ==
    /\ op = "isNone"
    /\ args.option # NONE
    /\ Obj(args.option) = [kind |-> "none"]
    /\ result = Val(Bool(TRUE))

\* C14: some(v) succeeds for every v, null and undefined included, and
\* yields a Some whose payload is v; isSome of a Some holding null is true and
\* unwrap of it returns null instead of raising.
C14_Some ==
    /\ op = "some" =>
           /\ ReturnedSomeOf(args.value)
           /\ result.r = Len(heap)
    /\ (op = "isSome" /\ Obj(args.option) = [kind |-> "some", value |-> Null])
           => result = Val(Bool(TRUE))
    /\ (op = "unwrap" /\ Obj(args.option) = [kind |-> "some", value |-> Null])
           => (thrown = NoError /\ result = Val(Null))

C14_Witness ==
    /\ op = "some"
    /\ args.value = Null
    /\ ReturnedSomeOf(Null)
    /\ result.r # NONE

\* C15: at every point of every sequence of calls, none() returns the one
\* shared instance, which has the discriminant 'none' and no payload: all
\* calls of none() return the same reference.
C15_NoneShared ==
    /\ Obj(NONE).kind = "none"
    /\ DOMAIN Obj(NONE) = {"kind"}
    /\ op = "none" => (Returned /\ result = Ref(NONE) /\ calls = <<>>)

C15_Witness ==
    /\ op = "none"
    /\ result = Ref(NONE)
    /\ \E r \in DOMAIN heap : r # NONE /\ Obj(r).kind = "none"
    /\ \E r \in DOMAIN heap : Obj(r).kind = "some"

\* C16: what a caller-supplied callback throws leaves the combinator as it
\* is: the very error, not an OptionError, and the combinator returns nothing.
C16_CallbackFailurePropagates ==
    /\ CallbackRaised =>
           /\ thrown = CallbackError
           /\ result = Nothing
           /\ calls[Len(calls)].ret = Nothing
    /\ (op = "map" /\ IsSomeRef(args.option) /\ args.fn = "fail")
           => CallbackRaised
    /\ (op = "flatMap" /\ IsSomeRef(args.option) /\ args.fn.k = "fail")
           => CallbackRaised
    /\ (op = "liftA2" /\ IsSomeRef(args.option1) /\ IsSomeRef(args.option2)
           /\ args.fn = "fail") => CallbackRaised
    /\ (op = "filter" /\ IsSomeRef(args.option) /\ args.predicate = "fail")
           => CallbackRaised
    /\ (op = "matchOption" /\ IsSomeRef(args.option) /\ args.onSome.k = "fail")
           => CallbackRaised
    /\ (op = "matchOption" /\ IsNoneRef(args.option) /\ args.onNone.k = "fail")
           => CallbackRaised
    /\ (op = "OrElse" /\ IsNoneRef(args.option) /\ args.alternative.k = "fail")
           => CallbackRaised

C16_Witness ==
    /\ op = "map"
    /\ IsSomeRef(args.option)
    /\ args.fn = "fail"
    /\ thrown = CallbackError
    /\ result = Nothing

\* C17: no call changes a container that exists: at every step every
\* container on the heap, the shared None included, keeps its discriminant
\* and its payload; a result of the other variant is another container.
C17_NoMutation ==
    [][\A r \in DOMAIN heap : r \in DOMAIN heap' /\ heap'[r] = heap[r]]_vars

C17_Witness ==
    /\ op = "filter"
    /\ Obj(args.option) = [kind |-> "some", value |-> Num(0)]
    /\ args.predicate = "positive"
    /\ ReturnedNone
    /\ result.r # args.option

\* The options a call was given as arguments.
ArgRefs ==
    CASE op \in {"liftA2", "and", "or"} -> {args.option1, args.option2}
      [] op \in {"map", "flatMap", "filter", "matchOption", "OrElse"} -> {args.option}
      [] OTHER -> {}

C19_MapComposition ==
    op = "mapComposition" =>
        LET n == result.nested
            u == result.fused
            o == Obj(args.option)
            Own(cs) == SelectSeq(cs, LAMBDA c : c.cb \in {args.f, args.g})
        IN  /\ n.thrown = u.thrown
            /\ n.thrown = NoError => Obj(n.result.r) = Obj(u.result.r)
            /\ Own(n.calls) = Own(u.calls)
            /\ (o.kind = "some" /\ n.thrown = NoError) =>
                   /\ Len(Own(u.calls)) = 2
                   /\ Own(u.calls)[1].cb = args.f
                   /\ Own(u.calls)[1].args = <<o.value>>
                   /\ Own(u.calls)[2].cb = args.g
                   /\ Own(u.calls)[2].args = <<Own(u.calls)[1].ret.v>>
                   /\ Obj(u.result.r) =
                          [kind |-> "some", value |-> Own(u.calls)[2].ret.v]
            /\ o.kind = "none" =>
                   /\ n.calls = <<>> /\ u.calls = <<>>
                   /\ IsNoneRef(n.result.r) /\ IsNoneRef(u.result.r)

\* Both forms were evaluated on a Some(1) with f doubling and g answering
\* null: each returned its own Some(null).
C19_Witness ==
    /\ op = "mapComposition"
    /\ Obj(args.option) = [kind |-> "some", value |-> Num(1)]
    /\ args.f = "double" /\ args.g = "toNull"
    /\ result.nested.thrown = NoError
    /\ result.nested.result.r # result.fused.result.r
    /\ Obj(result.nested.result.r) = [kind |-> "some", value |-> Null]
    /\ Obj(result.fused.result.r) = [kind |-> "some", value |-> Null]
    /\ Len(calls) = 5

\* C20 as stated: unwrap on a None without a message raises an OptionError
\* whose text is "attempted to extract from an absent value".
C20_AbsentValueText ==
    (op = "unwrap" /\ IsNoneRef(args.option) /\ args.message = Undefined) =>
        thrown = [name |-> "OptionError",
                  message |-> "attempted to extract from an absent value"]

\* C20: unwrap on a None without a message raises an OptionError whose text
\* is the fixed sentence 'Attempted to unwrap a None value'.
C20_DefaultText ==
    (op = "unwrap" /\ IsNoneRef(args.option) /\ args.message = Undefined) =>
        thrown = [name |-> "OptionError",
                  message |-> "Attempted to unwrap a None value"]

\* unwrap was called on the shared None without a message and raised the
\* error with the default sentence.
C20_Witness ==
    /\ op = "unwrap"
    /\ args.option = NONE
    /\ args.message = Undefined
    /\ result = Nothing
    /\ thrown.name = "OptionError"
    /\ thrown.message = "Attempted to unwrap a None value"

\* The users the README creates: 'Alice' with id 1 and 'Bob' with id 2.
Alice == User(1, "Alice", "alice@example.com")
Bob == User(2, "Bob", "bob@example.com")
AliceAndBobCreated ==
    /\ client.pc >= 2
    /\ client.user1 # NONE /\ Obj(client.user1) = [kind |-> "some", value |-> Alice]
    /\ client.user2 # NONE /\ Obj(client.user2) = [kind |-> "some", value |-> Bob]

\* What the program printed under a label (the set of the values).
Printed(label) ==
    {client.log[i].value : i \in {j \in DOMAIN client.log : client.log[j].label = label}}

\* C21 as stated: with Alice and Bob created, filter(user2, u => u.name.length
\* > 3) followed by unwrapOr(longNameUser, null) yields Bob's record.
C21_LongNameUserIsBob ==
    (AliceAndBobCreated /\ client.pc > 6) => Printed("Long name user:") = {Bob}

\* C22 as stated: with Alice and Bob created and user1's database entry
\* renamed to 'Alicia' by the flatMap statement, liftA2 over user1 and user2
\* followed by unwrapOr(combinedNames, 'No pair') yields 'Alicia & Bob'.
C22_CombinedNamesShowAlicia ==
    (AliceAndBobCreated /\ client.pc > 11) =>
        Printed("Combined names:") = {Str("Alicia & Bob")}

\* What the example program does instead: the flatMap statement replaced the
\* database entry and printed the renamed record, the option user1 still
\* holds the record it was built with, and the names combine to 'Alice & Bob'.
C22_CombinedNamesShowAlice ==
    (AliceAndBobCreated /\ client.pc > 11) =>
        /\ Printed("Updated user:") = {[Alice EXCEPT !.name = "Alicia"]}
        /\ client.userDB[1].name = "Alicia"
        /\ Obj(client.user1).value.name = "Alice"
        /\ Printed("Combined names:") = {Str("Alice & Bob")}

\* C23: map, flatMap and filter are specializations of matchOption. For
\* every option, map(o, f) and matchOption(o, v => some(f(v)), () => none()),
\* flatMap(o, f) and matchOption(o, f, () => none()), and filter(o, p) and
\* matchOption(o, v => p(v) ? some(v) : none(), () => none()) end the same
\* way: both throw the same error or both return structurally equal options.
\* On a Some, f or p is invoked once in each form with the same argument and
\* the same return (for map and filter the log of the matchOption form lists
\* the onSome callback first and then what its body invoked); on a None
\* neither form invokes f or p, the matchOption form only its onNone.
C23_SpecializationsOfMatchOption ==
    op \in {"mapAsMatch", "flatMapAsMatch", "filterAsMatch"} =>
        LET d == result.direct
            m == result.viaMatch
        IN  /\ d.thrown = m.thrown
            /\ d.thrown = NoError => Obj(d.result.r) = Obj(m.result.r)
            /\ IsNoneRef(args.option) =>
                   /\ d.calls = <<>>
                   /\ m.calls = <<Call([k |-> "none"], <<>>, Ref(NONE))>>
            /\ IsSomeRef(args.option) =>
                   /\ Len(d.calls) = 1
                   /\ op \in {"mapAsMatch", "filterAsMatch"} =>
                          /\ Len(m.calls) = 2
                          /\ m.calls[1].cb.k \in {"wrap", "keepIf"}
                          /\ Tail(m.calls) = d.calls
                   /\ op = "flatMapAsMatch" =>
                          /\ Len(m.calls) = 1
                          /\ m.calls[1].cb = d.calls[1].cb
                          /\ m.calls[1].args = d.calls[1].args

\* filter kept a Some(1) whose payload is positive and returned the option
\* itself, the matchOption form returned a new container with the same
\* content, and the predicate ran once in each.
C23_Witness ==
    /\ op = "filterAsMatch"
    /\ args.p = "positive"
    /\ Obj(args.option) = [kind |-> "some", value |-> Num(1)]
    /\ result.direct.result.r = args.option
    /\ result.viaMatch.result.r # args.option
    /\ Obj(result.viaMatch.result.r) = [kind |-> "some", value |-> Num(1)]
    /\ Len(result.direct.calls) = 1
    /\ Len(result.viaMatch.calls) = 2

\* C24: or and OrElse compute the same result and differ only in evaluation.
\* For all options o and x the client holds, or(o, x) and OrElse(o, () => x)
\* return the same container, neither throws, or invokes nothing (x was
\* computed before the call whatever o is), and OrElse runs its thunk once
\* when o is a None and not at all when o is a Some.
C24_OrAndOrElse ==
    op = "orAsOrElse" =>
        LET e == result.eager
            l == result.lazy
        IN  /\ e.thrown = NoError /\ l.thrown = NoError
            /\ e.result = l.result
            /\ e.result.r = IF IsSomeRef(args.o) THEN args.o ELSE args.x
            /\ args.x \in DOMAIN heap
            /\ e.calls = <<>>
            /\ IsSomeRef(args.o) => l.calls = <<>>
            /\ IsNoneRef(args.o) =>
                   l.calls = <<Call([k |-> "captured", r |-> args.x], <<>>, Ref(args.x))>>

\* On a Some o and another Some x both forms returned o and the thunk did
\* not run; the heap also holds a None, on which the thunk would have run.
C24_Witness ==
    /\ op = "orAsOrElse"
    /\ IsSomeRef(args.o) /\ IsSomeRef(args.x) /\ args.o # args.x
    /\ result.eager.result = Ref(args.o)
    /\ result.lazy.result = Ref(args.o)
    /\ result.lazy.calls = <<>>

\* C25: unwrap on a None carries the caller's message for every string, the
\* empty string included: unwrap(none(), '') raises an OptionError whose
\* message is '' and not the default text, and the default text is used only
\* when no message (undefined) is passed.
C25_EmptyMessageKept ==
    (op = "unwrap" /\ IsNoneRef(args.option)) =>
        /\ thrown.name = "OptionError"
        /\ args.message # Undefined => thrown.message = args.message.s
        /\ args.message = Str("") =>
               thrown.message = "" /\ thrown.message # DefaultMessage
        /\ thrown.message = DefaultMessage => args.message = Undefined

\* unwrap was called on a None with the empty string as message and raised
\* an OptionError whose message is the empty string.
C25_Witness ==
    /\ op = "unwrap"
    /\ IsNoneRef(args.option)
    /\ args.message = Str("")
    /\ thrown = [name |-> "OptionError", message |-> ""]

\* A container is well-formed: its discriminant is 'some' or 'none', a 'some'
\* has exactly one payload field and a 'none' has none.
WellFormed(c) ==
    \/ c.kind = "some" /\ DOMAIN c = {"kind", "value"}
    \/ c.kind = "none" /\ DOMAIN c = {"kind"}

\* C26: closure. After every call every container on the heap is
\* well-formed, the option a call returns is one of them, and no library
\* function allocates a None: a container that a call other than the
\* client's own { kind: 'none' } literal added to the heap is a Some, so a
\* None that the library produced is the shared instance.
C26_Closure ==
    [][/\ \A r \in DOMAIN heap' : WellFormed(heap'[r])
       /\ (op' # "idle" /\ result'.t = "ref") => result'.r \in DOMAIN heap'
       /\ op' # "literal" =>
              \A r \in DOMAIN heap' : r \notin DOMAIN heap => heap'[r].kind = "some"
       /\ (op' \in {"none", "fromNullable", "filter", "map", "liftA2", "and"}
               /\ thrown' = NoError /\ heap'[result'.r].kind = "none")
              => result'.r = NONE]_vars

\* filter was applied to a Some whose payload fails the predicate, while the
\* heap also held a client-made None: it returned the shared None.
C26_Witness ==
    /\ op = "filter"
    /\ IsSomeRef(args.option)
    /\ result = Ref(NONE)
    /\ \E r \in DOMAIN heap : r # NONE /\ IsNoneRef(r)
    /\ \A r \in DOMAIN heap : WellFormed(heap[r])

\* What an outcome returned, read structurally: the container a returned
\* reference denotes, or the value itself.
Shown(res) == IF res.t = "ref" THEN Obj(res.r) ELSE res

\* C27: the single-file build and the modular build are equivalent. For each
\* operation (orElse against OrElse) and every input, both throw the same
\* error, with the same name and message, or both return structurally equal
\* results, and they invoke the same callbacks on the same arguments the
\* same number of times. A None comes from each build's own NONE object.
C27_BuildsEquivalent ==
    (op # "idle" /\ result.t = "both") =>
        LET m == result.modular
            o == result.single
        IN  /\ m.thrown = o.thrown
            /\ Shown(m.result) = Shown(o.result)
            /\ Len(m.calls) = Len(o.calls)
            /\ \A i \in DOMAIN m.calls :
                   /\ m.calls[i].cb = o.calls[i].cb
                   /\ m.calls[i].args = o.calls[i].args
                   /\ Shown(m.calls[i].ret) = Shown(o.calls[i].ret)
            /\ (op \in {"none", "fromNullable", "filter", "map", "liftA2", "and"}
                    /\ m.thrown = NoError /\ Shown(m.result) = [kind |-> "none"])
                   => m.result.r = NONE /\ o.result.r = Single_NONE

\* unwrap on a None with a caller's message raised an OptionError with that
\* message in both builds.
C27_Witness ==
    /\ op = "unwrap"
    /\ result.t = "both"
    /\ IsNoneRef(args.option)
    /\ args.message = Str("custom message")
    /\ result.modular.thrown = [name |-> "OptionError", message |-> "custom message"]
    /\ result.single.thrown = [name |-> "OptionError", message |-> "custom message"]

====
